---- MODULE Spec2Model ----
(***************************************************************************)
(* The live voice session of src/components/LiveAssistant.tsx as a state   *)
(* machine: the React state of the component, its refs, every invocation   *)
(* of toggleSession with its local variables, the promise returned by      *)
(* ai.live.connect with the reactions registered on it, and the callbacks  *)
(* (onopen, onmessage, onerror, onclose, onaudioprocess, 'ended').         *)
(*                                                                         *)
(* JavaScript runs every handler to its next await.  A continuation that   *)
(* only waits for an already settled promise is a microtask: it runs       *)
(* before any further event (MicrotaskPending below).  Every other await   *)
(* (the key dialog, getUserMedia, AudioContext.resume/close, the           *)
(* connection) is completed by the environment in a later task.            *)
(*                                                                         *)
(* React re-runs the component some time after a state setter was called;  *)
(* until then the handlers and attributes of the committed render stay in  *)
(* place.  view is what the committed render closed over.                  *)
(***************************************************************************)
EXTENDS Integers, Sequences, FiniteSets, TLC

\* ---------------------------------------------------------------- bounds
MaxSessions == 2      \* invocations of toggleSession that pass the guard
MaxStarts   == 1      \* the same, in the specification that has playback
MaxPending  == 2      \* reactions registered on one connection promise
MaxChunks   == 2      \* audio chunks scheduled for playback
MaxBytes    == 4      \* byte length of an inbound chunk
MaxTime     == 1      \* last value of an output context's clock
MaxText     == 1      \* transcript fragments appended
SampleSteps == 100    \* input samples are k / SampleSteps, -SampleSteps <= k <= SampleSteps

Sessions == 1..MaxSessions
Handles  == 1..MaxChunks

\* ----------------------------------------------------- program constants
NumChannels  == 1     \* decodeAudioData(..., 24000, 1)
BytesPerSample == 2   \* Int16Array
PcmScale == 32768     \* int16[i] = inputData[i] * 32768
Int16Modulus == 65536 \* the values an element of an Int16Array can hold

VARIABLES
  isActive,          \* useState(false)
  isConnecting,      \* useState(false)
  transcription,     \* useState(''): number of fragments appended
  errorMsg,          \* useState(null): TRUE when a message is set
  view,              \* the state the committed render closed over
  mounted,           \* the component is mounted
  sessionPromiseRef, \* 0 (null) or the invocation whose promise it holds
  audioContextsRef,  \* 0 (null) or the invocation whose contexts it holds
  streamRef,         \* 0 (null) or the invocation whose stream it holds
  nextStartTimeRef,  \* playback cursor, in frames
  sourcesRef,        \* registered AudioBufferSourceNodes
  started,           \* invocations of toggleSession that passed the guard
  pc,                \* where each such invocation is suspended
  stream,            \* its MediaStream
  inputCtx,          \* its input AudioContext
  outputCtx,         \* its output AudioContext
  sessionPromise,    \* the promise ai.live.connect returned to it
  socket,            \* the connection behind that promise
  opened,            \* onopen ran: the script processor is installed
  reactions,         \* continuations registered on the promise, in order
  clock,             \* outputCtx.currentTime when last read, in frames
  source,            \* each AudioBufferSourceNode created
  inputData,         \* a sample of the captured block, in 1/SampleSteps
  int16,             \* the Int16Array element it was converted to (<<>>: none yet)
  log                \* history, never read by the program:
                     \*   fault, flushed: what the last step did
                     \*   play: <<when, duration>> of the source.start(when)
                     \*     of the last step, in frames
                     \*   stopRequested: a stop was requested since the last start
                     \*   startedBusy: invocations started while connecting or active
                     \*   sendTeardowns: cleanups called for failed sends (2: two or more)
                     \*   dropped: "dropped" once a chunk was dropped, "recovered"
                     \*     once a chunk was scheduled after that

vars == <<isActive, isConnecting, transcription, errorMsg, view, mounted,
          sessionPromiseRef, audioContextsRef, streamRef, nextStartTimeRef,
          sourcesRef, started, pc, stream, inputCtx, outputCtx,
          sessionPromise, socket, opened, reactions, clock, source,
          inputData, int16, log>>

\* The whole state as one record, so that a handler is a function on it.
S ==
  [isActive |-> isActive, isConnecting |-> isConnecting,
   transcription |-> transcription, errorMsg |-> errorMsg, view |-> view,
   mounted |-> mounted, sessionPromiseRef |-> sessionPromiseRef,
   audioContextsRef |-> audioContextsRef, streamRef |-> streamRef,
   nextStartTimeRef |-> nextStartTimeRef, sourcesRef |-> sourcesRef,
   started |-> started, pc |-> pc, stream |-> stream, inputCtx |-> inputCtx,
   outputCtx |-> outputCtx, sessionPromise |-> sessionPromise,
   socket |-> socket, opened |-> opened, reactions |-> reactions,
   clock |-> clock, source |-> source,
   inputData |-> inputData, int16 |-> int16,
   log |-> [log EXCEPT !.fault = "none", !.flushed = FALSE, !.play = <<>>]]

Set(r) ==
  /\ isActive' = r.isActive
  /\ isConnecting' = r.isConnecting
  /\ transcription' = r.transcription
  /\ errorMsg' = r.errorMsg
  /\ view' = r.view
  /\ mounted' = r.mounted
  /\ sessionPromiseRef' = r.sessionPromiseRef
  /\ audioContextsRef' = r.audioContextsRef
  /\ streamRef' = r.streamRef
  /\ nextStartTimeRef' = r.nextStartTimeRef
  /\ sourcesRef' = r.sourcesRef
  /\ started' = r.started
  /\ pc' = r.pc
  /\ stream' = r.stream
  /\ inputCtx' = r.inputCtx
  /\ outputCtx' = r.outputCtx
  /\ sessionPromise' = r.sessionPromise
  /\ socket' = r.socket
  /\ opened' = r.opened
  /\ reactions' = r.reactions
  /\ clock' = r.clock
  /\ source' = r.source
  /\ inputData' = r.inputData
  /\ int16' = r.int16
  /\ log' = r.log

Max(a, b) == IF a >= b THEN a ELSE b
Min(a, b) == IF a <= b THEN a ELSE b

\* The component as constructed, but for the captured sample.
InitSession ==
  /\ isActive = FALSE
  /\ isConnecting = FALSE
  /\ transcription = 0
  /\ errorMsg = FALSE
  /\ view = [isActive |-> FALSE, isConnecting |-> FALSE]
  /\ mounted = TRUE
  /\ sessionPromiseRef = 0
  /\ audioContextsRef = 0
  /\ streamRef = 0
  /\ nextStartTimeRef = 0
  /\ sourcesRef = {}
  /\ started = 0
  /\ pc = [s \in Sessions |-> "idle"]
  /\ stream = [s \in Sessions |-> "none"]
  /\ inputCtx = [s \in Sessions |-> "none"]
  /\ outputCtx = [s \in Sessions |-> "none"]
  /\ sessionPromise = [s \in Sessions |-> "none"]
  /\ socket = [s \in Sessions |-> "none"]
  /\ opened = [s \in Sessions |-> FALSE]
  /\ reactions = [s \in Sessions |-> <<>>]
  /\ clock = [s \in Sessions |-> 0]
  /\ source = [h \in Handles |-> "none"]
  /\ log = [fault |-> "none", flushed |-> FALSE, play |-> <<>>,
            stopRequested |-> FALSE,
            startedBusy |-> {}, sendTeardowns |-> [s \in Sessions |-> 0],
            dropped |-> "no"]

\* The sessions are run on silence.
Init ==
  /\ InitSession
  /\ inputData = 0
  /\ int16 = <<>>

Samples == (0 - SampleSteps)..SampleSteps

\* Any sample in [-1.0, 1.0] is about to be captured.
InitEncode ==
  /\ InitSession
  /\ inputData \in Samples
  /\ int16 = <<>>

\* ------------------------------------------------------------- teardown

\* A close() on a context that is already closing or closed rejects, and a
\* read through a cleared ref throws; either ends that invocation of cleanup
\* where it stands (nothing catches it).  The log keeps what was thrown.
Fault(st, f) == [st EXCEPT !.log.fault = f]

\* session.close() (line 63); a connection that has failed is closing
\* already and delivers nothing more
sessionClose(st, s) ==
  IF st.socket[s] \in {"connecting", "open"}
    THEN [st EXCEPT !.socket[s] = "closing"]
    ELSE st

\* A variant of flush that stops the sources and keeps them registered.
flushKeepsHandles(st) ==
  [st EXCEPT
     !.source = [h \in Handles |->
                   IF h \in st.sourcesRef /\ st.source[h] = "scheduled"
                     THEN "stopped" ELSE st.source[h]],
     !.nextStartTimeRef = 0,
     !.log.flushed = TRUE]

\* lines 79-83: stop every registered source, clear the set, reset the cursor
flush(st) ==
  [st EXCEPT
     !.source = [h \in Handles |->
                   IF h \in st.sourcesRef /\ st.source[h] = "scheduled"
                     THEN "stopped" ELSE st.source[h]],
     !.sourcesRef = {},
     !.nextStartTimeRef = 0,
     !.log.flushed = TRUE]

\* lines 75-83, after `await audioContextsRef.current.input.close()`: the ref
\* is read again.
cleanupAfterInputClose(st, c) ==
  LET a == [st EXCEPT !.inputCtx[c] = "closed"]
      d == a.audioContextsRef
  IN  IF d = 0 THEN Fault(a, "contextsRefNull")
      ELSE IF a.outputCtx[d] = "open"
        THEN [a EXCEPT !.outputCtx[d] = "closing"]
        ELSE Fault(a, "outputClosedTwice")

\* lines 76-83, after `await audioContextsRef.current.output.close()`
cleanupAfterOutputClose(st, d) ==
  flush([st EXCEPT !.outputCtx[d] = "closed", !.audioContextsRef = 0])

\* lines 73-83
cleanupContexts(st) ==
  LET c == st.audioContextsRef
  IN  IF c = 0 THEN flush(st)
      ELSE IF st.inputCtx[c] = "open"
        THEN [st EXCEPT !.inputCtx[c] = "closing"]
        ELSE Fault(st, "inputClosedTwice")

\* lines 68-83
cleanupStream(st) ==
  cleanupContexts(
    IF st.streamRef # 0
      THEN [st EXCEPT !.stream[st.streamRef] = "stopped", !.streamRef = 0]
      ELSE st)

\* lines 62-83, after `await sessionPromiseRef.current` settled for promise s
cleanupAfterSession(st, s) ==
  LET a == IF st.sessionPromise[s] = "resolved" THEN sessionClose(st, s) ELSE st
  IN  cleanupStream([a EXCEPT !.sessionPromiseRef = 0])

\* lines 56-66: cleanup up to its first await
cleanup(st) ==
  LET a == [st EXCEPT !.isActive = FALSE, !.isConnecting = FALSE]
      p == a.sessionPromiseRef
  IN  IF p # 0
        THEN [a EXCEPT !.reactions[p] = Append(@, "cleanup")]
        ELSE cleanupStream(a)

\* cleanup can be called only while the promise it would wait for has room
\* for one more reaction (the bound of the model).
Room(st) ==
  IF st.sessionPromiseRef = 0 THEN TRUE
  ELSE Len(st.reactions[st.sessionPromiseRef]) < MaxPending

\* A settled promise runs its reactions before any further event.
MicrotaskPending ==
  \E s \in Sessions :
     sessionPromise[s] \in {"resolved", "rejected"} /\ reactions[s] # <<>>

\* ----------------------------------------------------------- toggleSession

\* lines 92-104: up to `await hasSelectedApiKey()`
toggleSession(st) ==
  IF st.view.isActive \/ st.view.isConnecting
    THEN cleanup([st EXCEPT !.log.stopRequested = TRUE])
    ELSE [st EXCEPT !.isConnecting = TRUE, !.errorMsg = FALSE,
                    !.transcription = 0, !.started = @ + 1,
                    !.pc[st.started + 1] = "acquiring",
                    !.log.stopRequested = FALSE,
                    !.log.startedBusy =
                       IF st.isActive \/ st.isConnecting
                         THEN @ \cup {st.started + 1} ELSE @]

\* lines 216-221: the catch block
catch(st, s) ==
  cleanup([st EXCEPT !.errorMsg = TRUE, !.pc[s] = "failed"])

\* lines 104-119, from `await hasSelectedApiKey()` to `await inputCtx.resume()`:
\* r names the first step that throws (the key check of lines 104-110,
\* getUserMedia, either AudioContext constructor), or "ok"
acquire(st, s, r) ==
  CASE r \in {"noKey", "noStream"} -> catch(st, s)
    [] r = "noInputCtx" ->
         catch([st EXCEPT !.stream[s] = "live", !.streamRef = s], s)
    [] r = "noOutputCtx" ->
         catch([st EXCEPT !.stream[s] = "live", !.streamRef = s,
                          !.inputCtx[s] = "open"], s)
    [] OTHER ->
         [st EXCEPT !.stream[s] = "live", !.streamRef = s,
                    !.inputCtx[s] = "open", !.outputCtx[s] = "open",
                    !.audioContextsRef = s, !.pc[s] = "resuming"]

\* lines 122-214: ai.live.connect returns the promise, the ref keeps it
connect(st, s) ==
  [st EXCEPT !.sessionPromise[s] = "pending", !.socket[s] = "connecting",
             !.sessionPromiseRef = s, !.pc[s] = "connected"]

\* The button (lines 279-289): disabled while the render shows connecting.
\* At most n invocations pass the guard.
Click(n) ==
  /\ ~MicrotaskPending
  /\ mounted /\ ~view.isConnecting
  /\ IF view.isActive THEN TRUE ELSE started < n
  /\ Room(S)
  /\ Set(toggleSession(S))

\* The Dismiss button (lines 245-250), shown while the render has a message.
Dismiss ==
  /\ ~MicrotaskPending
  /\ mounted /\ errorMsg
  /\ Set([S EXCEPT !.errorMsg = FALSE])

\* React commits a render of the current state.
Render ==
  /\ ~MicrotaskPending
  /\ mounted
  /\ view # [isActive |-> isActive, isConnecting |-> isConnecting]
  /\ Set([S EXCEPT !.view = [isActive |-> isActive, isConnecting |-> isConnecting]])

\* lines 86-90: the effect's cleanup runs when the component unmounts.
Unmount ==
  /\ ~MicrotaskPending
  /\ mounted
  /\ Room(S)
  /\ Set(cleanup([S EXCEPT !.mounted = FALSE, !.log.stopRequested = TRUE]))

\* The awaits of lines 104-111 have returned (or one has thrown) and the
\* invocation runs on to line 119.  Nothing the program changes lies between
\* these awaits, so they are one suspension.
Acquired(s, r) ==
  /\ ~MicrotaskPending
  /\ pc[s] = "acquiring"
  /\ IF r = "ok" THEN TRUE ELSE Room(S)
  /\ Set(acquire(S, s, r))

\* Lines 119-120 have returned and lines 122-214 run, or a resume() has
\* rejected.  resume() is called only on a context whose state reads
\* 'suspended', and rejects only when close() has been called on that
\* context: both outcomes exist once a teardown has got at the contexts.
Resumed(s, ok) ==
  /\ ~MicrotaskPending
  /\ pc[s] = "resuming"
  /\ IF ok THEN Set(connect(S, s))
           ELSE /\ inputCtx[s] # "open" \/ outputCtx[s] # "open"
                /\ Room(S)
                /\ Set(catch(S, s))

\* ------------------------------------------------------------ connection

\* lines 125-155
onopen(st, s) ==
  [st EXCEPT !.isConnecting = FALSE, !.isActive = TRUE, !.opened[s] = TRUE]

\* lines 37-54: the number of frames decoded from a chunk of `bytes` bytes, or
\* -1 when `new Int16Array(data.buffer)` throws (a RangeError for a byte
\* length that is not a multiple of 2)
decodeAudioData(bytes, numChannels) ==
  IF bytes % BytesPerSample # 0 THEN -1
  ELSE (bytes \div BytesPerSample) \div numChannels

\* The first AudioBufferSourceNode not yet created.
NewSource(st) == CHOOSE h \in Handles :
                   /\ st.source[h] = "none"
                   /\ \A g \in Handles : g < h => st.source[g] # "none"

\* A variant of schedule that moves the cursor to the arrival time of the
\* chunk, whatever the cursor was.
scheduleAtArrival(st, s, bytes, t) ==
  LET a == [st EXCEPT !.nextStartTimeRef = t, !.clock[s] = t]
      frames == decodeAudioData(bytes, NumChannels)
      h == NewSource(a)
  IN  IF frames < 0
        THEN [a EXCEPT !.log.dropped = "dropped", !.log.fault = "RangeError"]
        ELSE [a EXCEPT !.source[h] = "scheduled",
                       !.nextStartTimeRef = @ + frames,
                       !.sourcesRef = @ \cup {h},
                       !.log.play = <<a.nextStartTimeRef, frames>>,
                       !.log.dropped = IF @ = "no" THEN "no" ELSE "recovered"]

\* A variant of schedule that starts every chunk at the cursor, wherever the
\* clock of the device stands.
scheduleAtCursor(st, s, bytes, t) ==
  LET a == [st EXCEPT !.clock[s] = t]
      frames == decodeAudioData(bytes, NumChannels)
      h == NewSource(a)
  IN  IF frames < 0
        THEN [a EXCEPT !.log.dropped = "dropped", !.log.fault = "RangeError"]
        ELSE [a EXCEPT !.source[h] = "scheduled",
                       !.nextStartTimeRef = @ + frames,
                       !.sourcesRef = @ \cup {h},
                       !.log.play = <<a.nextStartTimeRef, frames>>,
                       !.log.dropped = IF @ = "no" THEN "no" ELSE "recovered"]

\* lines 164-178: the audio part of a message; t is outputCtx.currentTime.
\* The handler ends at line 166 when decodeAudioData rejects.
schedule(st, s, bytes, t) ==
  LET a == [st EXCEPT !.nextStartTimeRef = Max(@, t), !.clock[s] = t]
      frames == decodeAudioData(bytes, NumChannels)
      h == NewSource(a)
  IN  IF frames < 0
        THEN [a EXCEPT !.log.dropped = "dropped", !.log.fault = "RangeError"]
      ELSE [a EXCEPT !.source[h] = "scheduled",
                     !.nextStartTimeRef = @ + frames,
                     !.sourcesRef = @ \cup {h},
                     !.log.play = <<a.nextStartTimeRef, frames>>,
                     !.log.dropped = IF @ = "no" THEN "no" ELSE "recovered"]

\* A variant of onmessage that treats a chunk it cannot decode as the end of
\* the session.
onmessageFatal(st, s, m, t) ==
  LET a == IF m.text THEN [st EXCEPT !.transcription = @ + 1] ELSE st
      b == IF m.bytes > 0 THEN schedule(a, s, m.bytes, t) ELSE a
      thrown == m.bytes > 0 /\ decodeAudioData(m.bytes, NumChannels) < 0
  IN  IF thrown THEN cleanup([b EXCEPT !.errorMsg = TRUE])
      ELSE IF m.interrupted THEN flush(b) ELSE b

\* lines 156-188
onmessage(st, s, m, t) ==
  LET a == IF m.text THEN [st EXCEPT !.transcription = @ + 1] ELSE st
      b == IF m.bytes > 0 THEN schedule(a, s, m.bytes, t) ELSE a
      thrown == m.bytes > 0 /\ decodeAudioData(m.bytes, NumChannels) < 0
  IN  IF m.interrupted /\ ~thrown THEN flush(b) ELSE b

\* A variant of onerror that reports the error and leaves the session as it
\* is.
onerrorReportOnly(st, s) ==
  [st EXCEPT !.errorMsg = TRUE]

\* lines 189-197
onerror(st, s) == cleanup([st EXCEPT !.errorMsg = TRUE])

\* lines 198-201
onclose(st, s) == cleanup(st)

\* The conversion of a number to an element of an Int16Array: truncated
\* toward zero, then taken modulo 2^16 into [-2^15, 2^15).
ToInt16(v) ==
  LET n == IF v >= 0 THEN v ELSE 0 - ((0 - v) % Int16Modulus)
      m == n % Int16Modulus
  IN  IF m >= Int16Modulus \div 2 THEN m - Int16Modulus ELSE m

\* inputData[i] * 32768 for the sample k / SampleSteps, truncated toward zero
Scaled(k) ==
  IF k >= 0 THEN (k * PcmScale) \div SampleSteps
            ELSE 0 - (((0 - k) * PcmScale) \div SampleSteps)

\* lines 133-138: int16[i] = inputData[i] * 32768
convert(st) ==
  [st EXCEPT !.int16 = <<ToInt16(Scaled(st.inputData))>>]

\* lines 132-151: one block captured and converted; the send waits for the
\* promise
onaudioprocess(st, s) ==
  [convert(st) EXCEPT !.reactions[s] =
     Append(@, IF st.sessionPromise[s] = "pending" THEN "sendQueued" ELSE "send")]

\* lines 146-150: the reaction of one captured block, once the promise settled
send(st, s, item) ==
  IF st.sessionPromise[s] = "resolved"
    THEN st
    ELSE cleanup([st EXCEPT !.log.sendTeardowns[s] = Min(@ + 1, 2)])

\* The next reaction of a settled promise (a microtask).
RunReaction(s) ==
  /\ sessionPromise[s] \in {"resolved", "rejected"}
  /\ reactions[s] # <<>>
  /\ LET item == Head(reactions[s])
         st == [S EXCEPT !.reactions[s] = Tail(@)]
     IN  IF item = "cleanup" THEN Set(cleanupAfterSession(st, s))
                             ELSE Set(send(st, s, item))

Messages ==
  [text : BOOLEAN, bytes : 0..MaxBytes, interrupted : BOOLEAN]

\* The connection opens while the promise of ai.live.connect is pending (it
\* resolves after that, and a connect that has failed does not open).
OnOpen(s) ==
  /\ ~MicrotaskPending
  /\ socket[s] = "connecting" /\ sessionPromise[s] = "pending"
  /\ Set(onopen([S EXCEPT !.socket[s] = "open"], s))

\* The promise of ai.live.connect resolves once the connection is open.
PromiseResolves(s) ==
  /\ ~MicrotaskPending
  /\ sessionPromise[s] = "pending" /\ opened[s]
  /\ Set([S EXCEPT !.sessionPromise[s] = "resolved"])

PromiseRejects(s) ==
  /\ ~MicrotaskPending
  /\ sessionPromise[s] = "pending"
  /\ IF sessionPromiseRef \in {0, s} THEN TRUE
     ELSE Len(reactions[sessionPromiseRef]) + Len(reactions[s]) <= MaxPending
  /\ Set([S EXCEPT !.sessionPromise[s] = "rejected"])

OnMessage(s, m, t) ==
  /\ ~MicrotaskPending
  /\ socket[s] \in {"open", "closing"}
  /\ m.text => transcription < MaxText
  /\ decodeAudioData(m.bytes, NumChannels) > 0 => \E h \in Handles : source[h] = "none"
  /\ IF m.bytes > 0 /\ outputCtx[s] = "open" THEN t \in clock[s]..MaxTime
                                             ELSE t = clock[s]
  /\ Set(onmessage(S, s, m, t))

OnError(s) ==
  /\ ~MicrotaskPending
  /\ socket[s] \in {"connecting", "open"}
  /\ Room(S)
  /\ Set(onerror([S EXCEPT !.socket[s] = "errored"], s))

OnClose(s) ==
  /\ ~MicrotaskPending
  /\ socket[s] \in {"connecting", "open", "errored", "closing"}
  /\ Room(S)
  /\ Set(onclose([S EXCEPT !.socket[s] = "closed"], s))

\* The script processor fires while its context runs: nothing in cleanup
\* disconnects it, and a context renders until its close() has completed.
AudioProcess(s) ==
  /\ ~MicrotaskPending
  /\ opened[s] /\ inputCtx[s] \in {"open", "closing"}
  /\ Len(reactions[s]) < MaxPending
  /\ sessionPromise[s] = "rejected" => Room(S)
  /\ Set(onaudioprocess(S, s))

\* close() of an input context completes; the cleanup waiting for it resumes.
InputClosed(c) ==
  /\ ~MicrotaskPending
  /\ inputCtx[c] = "closing"
  /\ Set(cleanupAfterInputClose(S, c))

OutputClosed(d) ==
  /\ ~MicrotaskPending
  /\ outputCtx[d] = "closing"
  /\ Set(cleanupAfterOutputClose(S, d))

\* A variant of Ended whose listener leaves the source registered.
EndedKeepsHandle(h) ==
  /\ ~MicrotaskPending
  /\ source[h] \in {"scheduled", "stopped"}
  /\ Set([S EXCEPT !.source[h] = "ended"])

\* lines 171-173: a source's 'ended' event (played to its end, or stopped)
Ended(h) ==
  /\ ~MicrotaskPending
  /\ source[h] \in {"scheduled", "stopped"}
  /\ Set([S EXCEPT !.source[h] = "ended", !.sourcesRef = @ \ {h}])

\* The lifecycle of a session: the toggle button, the renders, the steps of
\* toggleSession and of cleanup, and the events of the connection.
Lifecycle(n) ==
  \/ Click(n)
  \/ Render
  \/ \E s \in Sessions, r \in {"ok", "noKey", "noStream", "noInputCtx", "noOutputCtx"} :
        Acquired(s, r)
  \/ \E s \in Sessions, ok \in BOOLEAN : Resumed(s, ok)
  \/ \E s \in Sessions : OnOpen(s)
  \/ \E s \in Sessions : PromiseResolves(s)
  \/ \E s \in Sessions : PromiseRejects(s)
  \/ \E s \in Sessions : RunReaction(s)
  \/ \E s \in Sessions : OnError(s)
  \/ \E s \in Sessions : OnClose(s)
  \/ \E c \in Sessions : InputClosed(c)
  \/ \E d \in Sessions : OutputClosed(d)

\* The rest of the page: the Dismiss button and the unmount.
Page ==
  \/ Dismiss
  \/ Unmount

\* Audio in both directions: microphone packets, and chunks played back.
Audio ==
  \/ \E s \in Sessions : AudioProcess(s)
  \/ \E s \in Sessions, m \in Messages, t \in 0..MaxTime : OnMessage(s, m, t)
  \/ \E h \in Handles : Ended(h)

\* One session from start to teardown, with its audio.
Next == Lifecycle(MaxStarts) \/ Page \/ Audio

Spec == Init /\ [][Next]_vars

\* Invocations of toggleSession that overlap or follow one another, without
\* audio.
NextRestart == Lifecycle(MaxSessions)

SpecRestart == Init /\ [][NextRestart]_vars

\* One session whose connection handle never settles: the lifecycle without
\* the settling of the promise (and so without the reactions that wait for
\* it), and the unmount.  The close() of a device context that was called
\* completes.
NextPending ==
  \/ Click(MaxStarts)
  \/ Render
  \/ Unmount
  \/ \E s \in Sessions, r \in {"ok", "noKey", "noStream", "noInputCtx", "noOutputCtx"} :
        Acquired(s, r)
  \/ \E s \in Sessions, ok \in BOOLEAN : Resumed(s, ok)
  \/ \E s \in Sessions : OnOpen(s)
  \/ \E s \in Sessions : OnError(s)
  \/ \E s \in Sessions : OnClose(s)
  \/ \E s \in Sessions : AudioProcess(s)
  \/ \E c \in Sessions : InputClosed(c)
  \/ \E d \in Sessions : OutputClosed(d)

SpecPending ==
  /\ Init
  /\ [][NextPending]_vars
  /\ \A c \in Sessions : WF_vars(InputClosed(c))
  /\ \A d \in Sessions : WF_vars(OutputClosed(d))

\* The conversion of one captured sample, whatever the sample.
Convert ==
  /\ int16 = <<>>
  /\ Set(convert(S))

NextEncode == Convert

SpecEncode == InitEncode /\ [][NextEncode]_vars

\* ---------------------------------------------------------------- claims

\* What the program still has to do by itself: an invocation of toggleSession
\* or of cleanup is suspended at an await, or a microtask is due.
InFlight ==
  \/ \E s \in Sessions : pc[s] \in {"acquiring", "resuming"}
  \/ \E s \in Sessions : inputCtx[s] = "closing" \/ outputCtx[s] = "closing"
  \/ \E s \in Sessions : \E i \in 1..Len(reactions[s]) : reactions[s][i] = "cleanup"
  \/ MicrotaskPending

Connected(s) == socket[s] \in {"connecting", "open", "errored"}

Held(s) ==
  \/ stream[s] = "live"
  \/ inputCtx[s] = "open"
  \/ outputCtx[s] = "open"
  \/ Connected(s)

AllHeld(s) ==
  /\ stream[s] = "live"
  /\ inputCtx[s] = "open"
  /\ outputCtx[s] = "open"
  /\ Connected(s)

NoStartFailed == \A s \in Sessions : pc[s] # "failed"

\* C1: a start request issued while a session is connecting or active never
\* acquires a microphone stream, device contexts or a connection (it only
\* tears the existing session down).
C1_NoSecondSession ==
  \A s \in log.startedBusy :
     /\ stream[s] = "none"
     /\ inputCtx[s] = "none"
     /\ outputCtx[s] = "none"
     /\ sessionPromise[s] = "none"

\* C2: once a stop was requested after a start that did not fail, and the
\* program has nothing left to do by itself, the session is idle with no
\* registered playback handle, every track stopped and both contexts closed.
C2_StopReachesIdle ==
  log.stopRequested /\ NoStartFailed /\ ~InFlight =>
     /\ ~isActive /\ ~isConnecting
     /\ sourcesRef = {}
     /\ \A s \in Sessions :
          stream[s] # "live" /\ inputCtx[s] # "open" /\ outputCtx[s] # "open"

\* C3: no invocation of cleanup closes a context that is already closing or
\* closed, or reads a context through a ref another invocation has cleared,
\* whichever of user stop, Error, Closed and failed send triggered them.
C3_ReleasedOnce ==
  mounted /\ NoStartFailed =>
    log.fault \notin {"inputClosedTwice", "outputClosedTwice", "contextsRefNull"}

\* C4: when a start has failed and its teardown is over, the machine is idle
\* and nothing that attempt acquired is still held.
C4_FailedStartReleasesAll ==
  \A s \in Sessions :
     pc[s] = "failed" /\ ~InFlight =>
        /\ ~isActive /\ ~isConnecting
        /\ ~Held(s)

\* C5: while the status is inactive nothing is held, and while it is active
\* the stream, both contexts and the connection are all held.
C5_NoPartialState ==
  mounted /\ NoStartFailed =>
    /\ (~isActive /\ ~isConnecting) => \A s \in Sessions : ~Held(s)
    /\ isActive => \E s \in Sessions : AllHeld(s)

\* cleanup has been called in this step: it now waits for the connection
\* handle, or it has stopped the tracks and begun to close the contexts.
TeardownBegun ==
  IF sessionPromiseRef' # 0
    THEN /\ Len(reactions'[sessionPromiseRef']) = Len(reactions[sessionPromiseRef']) + 1
         /\ reactions'[sessionPromiseRef'][Len(reactions'[sessionPromiseRef'])] = "cleanup"
    ELSE /\ streamRef' = 0
         /\ IF audioContextsRef' = 0 THEN TRUE
            ELSE inputCtx'[audioContextsRef'] # "open"

Malformed(m) == m.bytes % (BytesPerSample * NumChannels) # 0

\* What a dropped chunk must leave alone: the registered handles, the
\* status, the error message, and everything teardown touches.
DropFrame ==
  /\ sourcesRef' = sourcesRef /\ source' = source
  /\ isActive' = isActive /\ isConnecting' = isConnecting
  /\ errorMsg' = errorMsg
  /\ reactions' = reactions
  /\ sessionPromiseRef' = sessionPromiseRef /\ streamRef' = streamRef
  /\ audioContextsRef' = audioContextsRef
  /\ stream' = stream /\ inputCtx' = inputCtx /\ outputCtx' = outputCtx
  /\ socket' = socket /\ sessionPromise' = sessionPromise

\* C7: a chunk whose byte length is not a multiple of 2 x channelCount is
\* dropped: the step that meets it is the handling of such a message, it
\* registers no handle, leaves the status and the error message as they are
\* and begins no teardown.
C7_MalformedChunkDropped ==
  [][log'.fault = "RangeError" =>
       /\ DropFrame
       /\ \E s \in Sessions, m \in Messages, t \in 0..MaxTime :
             Malformed(m) /\ OnMessage(s, m, t)
    ]_vars

\* A chunk was dropped in an active session and a later chunk is registered.
C7_Witness ==
  /\ log.dropped = "recovered"
  /\ isActive /\ ~errorMsg
  /\ \E h \in sourcesRef : source[h] = "scheduled"

\* C8: no packet waits on a connection handle that has not resolved.
C8_NoSendQueued ==
  \A s \in Sessions :
     sessionPromise[s] = "pending" =>
        \A i \in 1..Len(reactions[s]) : reactions[s][i] # "sendQueued"

\* C9: failed sends trigger teardown at most once in a session.
C9_OneTeardownPerSession ==
  \A s \in Sessions : log.sendTeardowns[s] <= 1

\* C10: the cursor never decreases in a step that does not flush, and is 0
\* after a step that flushes.
C10_CursorMonotone ==
  [][IF log'.flushed THEN nextStartTimeRef' = 0
                     ELSE nextStartTimeRef' >= nextStartTimeRef]_vars

\* Two chunks were scheduled back to back, a chunk was dropped, and the
\* cursor stands past both.
C10_Witness ==
  /\ Cardinality(sourcesRef) = 2
  /\ log.dropped # "no"
  /\ nextStartTimeRef >= 2

\* C11: a step that flushes ends with the registered set empty and with every
\* handle that was registered stopped, throws nothing, and flushing once
\* more would change nothing (whether or not handles were registered, and
\* whether or not some had already finished).
C11_FlushEmptiesSet ==
  [][log'.flushed =>
       /\ sourcesRef' = {}
       /\ \A h \in sourcesRef : source'[h] = "stopped"
       /\ \A h \in Handles : source'[h] # "scheduled"
       /\ log'.fault = "none"
       /\ flush(S').sourcesRef = sourcesRef'
       /\ flush(S').source = source'
       /\ flush(S').nextStartTimeRef = nextStartTimeRef'
    ]_vars

\* A flush has just run with one handle registered and another finished
\* before it.
C11_Witness ==
  /\ log.flushed
  /\ sourcesRef = {}
  /\ \E h, g \in Handles : source[h] = "stopped" /\ source[g] = "ended"

\* C12: a chunk that is started is started at max(cursor, device time); the
\* cursor then stands at that start plus the duration of the chunk (unless
\* the same message flushes); so a chunk that arrives while the cursor is
\* ahead of the device starts exactly at the cursor, where the chunk before
\* it ends, and a chunk that arrives with the cursor at 0 starts at the
\* device time.  Between two chunks the cursor moves only up to the device
\* time or, by a flush, to 0.
C12_BackToBack ==
  [][IF log'.play # <<>>
       THEN \E s \in Sessions :
               /\ socket[s] \in {"open", "closing"}
               /\ log'.play[1] = Max(nextStartTimeRef, clock'[s])
               /\ nextStartTimeRef >= clock'[s] => log'.play[1] = nextStartTimeRef
               /\ nextStartTimeRef = 0 => log'.play[1] = clock'[s]
               /\ log'.play[2] > 0
               /\ ~log'.flushed => nextStartTimeRef' = log'.play[1] + log'.play[2]
       ELSE \/ nextStartTimeRef' = nextStartTimeRef
            \/ log'.flushed /\ nextStartTimeRef' = 0
            \/ \E s \in Sessions : /\ clock'[s] > nextStartTimeRef
                                   /\ nextStartTimeRef' = clock'[s]
    ]_vars

\* A second chunk has just been started at the end of the first, later than
\* the device time at which it arrived.
C12_Witness ==
  /\ log.play # <<>>
  /\ Cardinality(sourcesRef) = 2
  /\ \E s \in Sessions : opened[s] /\ log.play[1] > clock[s] /\ clock[s] > 0

\* A session was created and a teardown has run through: the status is idle,
\* the ref of the connection is cleared, and nothing is left to do.
TornDown ==
  /\ \E s \in Sessions : sessionPromise[s] # "none"
  /\ ~isActive /\ ~isConnecting
  /\ sessionPromiseRef = 0
  /\ ~InFlight

\* C13: once a session is destroyed the transcript is empty and the cursor
\* is 0.
C13_DestroyResets ==
  mounted /\ NoStartFailed /\ TornDown =>
     transcription = 0 /\ nextStartTimeRef = 0

\* C14: the Ready event is acted on (the status set active, the capture
\* pipeline installed) only while the session is connecting and no teardown
\* has been requested, and nothing is captured before it.
C14_ReadyOnlyWhileConnecting ==
  [][\A s \in Sessions :
        /\ (~opened[s] /\ opened'[s]) => isConnecting /\ ~log.stopRequested
        /\ (isActive' /\ ~isActive) => \E r \in Sessions : ~opened[r] /\ opened'[r]
        /\ Len(reactions'[s]) > Len(reactions[s]) /\ ~opened[s] =>
              reactions'[s][Len(reactions'[s])] = "cleanup"
    ]_vars

\* C15: the capture pipeline is stopped before the close of the connection
\* is requested: once it is requested no captured frame is on its way to
\* the connection.
C15_NoFrameAfterClose ==
  \A s \in Sessions :
     mounted /\ socket[s] = "closing" =>
        \A i \in 1..Len(reactions[s]) : reactions[s][i] \notin {"send", "sendQueued"}

\* The part of the state a message with the Interrupted signal must leave
\* alone: the status, the device resources and the connection.
InterruptFrame ==
  /\ isActive' = isActive /\ isConnecting' = isConnecting
  /\ stream' = stream /\ inputCtx' = inputCtx /\ outputCtx' = outputCtx
  /\ socket' = socket /\ sessionPromise' = sessionPromise
  /\ reactions' = reactions

\* C16: the handling of a message that carries the Interrupted signal in an
\* active session ends with the registered set empty and the cursor at 0,
\* whatever else the message carries, and leaves the status, the device
\* resources and the connection as they were.
C16_InterruptedAlwaysFlushes ==
  [][\A s \in Sessions, m \in Messages, t \in 0..MaxTime :
        (isActive /\ m.interrupted /\ OnMessage(s, m, t)) =>
           /\ sourcesRef' = {}
           /\ nextStartTimeRef' = 0
           /\ InterruptFrame
    ]_vars

C18_NoWraparound ==
  int16 # <<>> =>
     /\ int16[1] = Scaled(inputData)
     /\ inputData > 0 => int16[1] > 0

\* A step of an earlier session s: an event of its connection, or a
\* continuation that waited for its promise.
StepOf(s) ==
  \/ socket'[s] # socket[s]
  \/ Len(reactions'[s]) < Len(reactions[s])

Untouched(r) ==
  /\ stream'[r] = stream[r]
  /\ inputCtx'[r] = inputCtx[r] /\ outputCtx'[r] = outputCtx[r]
  /\ socket'[r] = socket[r]
  /\ reactions'[r] = reactions[r]

\* C19: when a session was started after an earlier one had gone idle, no
\* start has failed and no stop was requested since, a step of the earlier
\* session leaves the stream, the contexts and the connection of the later
\* one as they are and registers no teardown on its promise.
C19_EarlierSessionIsolated ==
  [][\A s, r \in Sessions :
        (s < r /\ log.startedBusy = {} /\ NoStartFailed /\ ~log.stopRequested
           /\ StepOf(s)) => Untouched(r)
    ]_vars

\* C20: once a teardown has run through (status idle, both contexts closed,
\* the set empty and the cursor at 0), nothing changes the transcript, the
\* registered set or the cursor, and no source is started, until the next
\* start.
C20_LateMessagesIgnored ==
  [][(/\ mounted /\ NoStartFailed /\ TornDown
      /\ \A s \in Sessions : outputCtx[s] \in {"none", "closed"}
      /\ sourcesRef = {} /\ nextStartTimeRef = 0
      /\ started' = started)
       => /\ transcription' = transcription
          /\ sourcesRef' = {}
          /\ nextStartTimeRef' = 0
          /\ log'.play = <<>>
    ]_vars

\* A teardown was requested and waits for the connection handle.
TeardownWaits ==
  \E s \in Sessions : \E i \in 1..Len(reactions[s]) : reactions[s][i] = "cleanup"

LocalReleased ==
  /\ \A s \in Sessions :
        /\ stream[s] # "live"
        /\ inputCtx[s] \in {"none", "closed"}
        /\ outputCtx[s] \in {"none", "closed"}
  /\ sourcesRef = {}

\* C21: once teardown is requested the tracks are eventually stopped, both
\* contexts closed and playback flushed, though the connection handle never
\* settles (the local close operations complete).
C21_LocalReleaseEventually ==
  TeardownWaits ~> LocalReleased

====
